---- MODULE Spec2Model ----
(***************************************************************************)
(* Model of the reverse-proxy tunnel: the broker (src/cmd/server/main.go)  *)
(* with its registry, its three HTTP handlers and its relay, and the agent *)
(* (src/cmd/agent/main.go) with its registration loop, its connect loop    *)
(* with exponential backoff, its local acceptor and its relay.             *)
(*                                                                         *)
(* Strings are sequences of code points, so that the character-class test  *)
(* of isValidSubdomain, the Host split of handleHTTP and the port check of *)
(* url.Parse are computed, not assumed.                                    *)
(*                                                                         *)
(* Three groups of variables, one per part of the program, each driven by  *)
(* its own specification while the other groups stay at their initial      *)
(* value:                                                                  *)
(*   Spec       the broker's handlers run by concurrent request tasks      *)
(*   AgentSpec  the agent's main goroutine, handleConnection and relays    *)
(*   RelaySpec  one relay pairing (handleTunnel's or forwardTraffic's)     *)
(***************************************************************************)
EXTENDS Integers, Sequences, FiniteSets, TLC

\* ------------------------------------------------------------------ bounds

\* Number of request goroutines the broker's HTTP server runs at once.
NumTasks == 2
\* Consecutive failed dials the agent's connect loop is followed through.
MaxFails == 8
\* Local connections the agent's listener accepts in one run.
MaxLocalConns == 2
\* The suffixes drawn on a conflict: 0..SuffixChoices-1 stands for
\* rand.Intn(1000)'s 0..999.
SuffixChoices == 2
\* The transfer buffer's length in the model: it stands for make([]byte, 1024).
BufSize == 2
\* Bytes each peer of a pairing writes, and messages the channel's peer sends.
MaxPayload == 3
MaxMessages == 2

\* ------------------------------------------------------------ HTTP statuses

StatusSwitchingProtocols == 101
StatusOK == 200
StatusCreated == 201
StatusBadRequest == 400
StatusUnauthorized == 401
StatusNotFound == 404
StatusConflict == 409
StatusBadGateway == 502
\* No response written yet.
NoResponse == 0
\* The handler panicked before writing a response: net/http recovers the
\* panic and closes the connection, the client reads no status.
Aborted == -1

\* ------------------------------------------------------------------ strings

\* "test123", the shared secret compared in handleRegister and handleTunnel.
Secret == <<116, 101, 115, 116, 49, 50, 51>>
\* "wrong", some other credential.
BadKey == <<119, 114, 111, 110, 103>>

S_test == <<116, 101, 115, 116>>
S_demo == <<100, 101, 109, 111>>
\* "my-app1"
S_myapp1 == <<109, 121, 45, 97, 112, 112, 49>>
S_empty == <<>>
\* "My-App"
S_MyApp == <<77, 121, 45, 65, 112, 112>>
\* "my_app"
S_my_app == <<109, 121, 95, 97, 112, 112>>
\* "a b"
S_a_b == <<97, 32, 98>>
\* "unknown"
S_unknown == <<117, 110, 107, 110, 111, 119, 110>>
\* ".example.com"
S_dotExampleCom == <<46, 101, 120, 97, 109, 112, 108, 101, 46, 99, 111, 109>>
\* "localhost:"
S_localhostColon == <<108, 111, 99, 97, 108, 104, 111, 115, 116, 58>>
\* "80", "8080", "http" (a target_port that is no port)
P_80 == <<56, 48>>
P_8080 == <<56, 48, 56, 48>>
P_http == <<104, 116, 116, 112>>

\* A nil *url.URL.
Nil == [Host |-> <<>>, nil |-> TRUE]

\* url.Parse("http://localhost:" + port) for a port without URL delimiters:
\* parseHost accepts the host only when what follows its last ':' is empty or
\* all decimal digits (validOptionalPort); otherwise Parse returns nil and an
\* error, which handleRegister and main discard.
urlParse(port) ==
    IF \A i \in 1..Len(port) : port[i] >= 48 /\ port[i] <= 57
    THEN [Host |-> S_localhostColon \o port, nil |-> FALSE]
    ELSE Nil

\* isValidSubdomain: non-empty and no rune outside a-z, 0-9, '-'.
isValidSubdomain_upper(subdomain) ==
    /\ Len(subdomain) > 0
    /\ \A i \in 1..Len(subdomain) :
          LET r == subdomain[i] IN
          \/ (r >= 97 /\ r <= 122)
          \/ (r >= 65 /\ r <= 90)
          \/ (r >= 48 /\ r <= 57)
          \/ r = 45

isValidSubdomain(subdomain) ==
    /\ Len(subdomain) > 0
    /\ \A i \in 1..Len(subdomain) :
          LET r == subdomain[i] IN
          \/ (r >= 97 /\ r <= 122)
          \/ (r >= 48 /\ r <= 57)
          \/ r = 45

\* strings.Split(host, ".")[0]: the whole string when it holds no '.',
\* otherwise what precedes the first '.'.
splitHost_last(host) ==
    LET dots == {i \in 1..Len(host) : host[i] = 46} IN
    IF dots = {} THEN host
    ELSE LET last == CHOOSE i \in dots : \A j \in dots : j <= i IN
         SubSeq(host, 1, last - 1)

splitHost(host) ==
    LET dots == {i \in 1..Len(host) : host[i] = 46} IN
    IF dots = {} THEN host
    ELSE LET first == CHOOSE i \in dots : \A j \in dots : i <= j IN
         SubSeq(host, 1, first - 1)

\* ---------------------------------------------------------------- variables

VARIABLES
    \* broker (src/cmd/server/main.go)
    tunnels,      \* the registry map: subdomain -> *url.URL
    tunnelsMu,    \* the RWMutex: [w |-> writer task or 0, r |-> reader tasks]
    pc,           \* each request task's position in its handler
    req,          \* each request task's request
    resp,         \* the status each task's client has received
    loc,          \* each handler's locals
    created,      \* history: the registrations answered 201, as <<subdomain, port>>
    snap,         \* history: `created` when the task's request arrived
    \* agent (src/cmd/agent/main.go)
    flags,        \* the command line: [subdomain, port, apikey]
    aPc,          \* main's position
    subdomain,    \* main's variable subdomain, the current candidate
    headers,      \* the dial's headers: [key, sub]
    retryDelay,   \* main's retryDelay, in seconds
    fails,        \* history: consecutive failed dials
    ctxDone,      \* the interrupt signal has cancelled ctx
    conn,         \* the agent's end of the control channel: none, open, closed
    netUp,        \* the network path of the control channel is up
    hPc,          \* handleConnection's position
    listener,     \* the local listener: none, open, closed
    fwd,          \* each forwardTraffic call: none, relaying, returned
    exit,         \* the process: running, shutdown, fatal_register, fatal_listen
    lastErr,      \* history: the last error the agent met
    \* one relay pairing (handleTunnel lines 97-131, forwardTraffic)
    side,         \* whose pairing it is: "broker" or "agent" ("off": none)
    lPc,          \* the local -> WebSocket loop's position
    buf,          \* its transfer buffer, reused by every Read
    nRead,        \* the count n its last Read returned
    wPc,          \* the WebSocket -> local loop's position
    msg,          \* the message its last ReadMessage returned
    tcpIn,        \* bytes the local connection's peer wrote, not yet read
    tcpOut,       \* bytes written to the local connection
    tcpSent,      \* history: every byte the local connection's peer wrote
    wsIn,         \* messages the channel's peer sent, not yet read
    wsOut,        \* messages written to the channel
    wsSent,       \* history: every byte the channel's peer sent
    wsCount,      \* history: the number of messages the channel's peer sent
    tcpLocal,     \* localConn: open, closed
    tcpPeer,      \* the local connection's other end: open, closed
    wsLocal,      \* the channel's own end: open, closed
    wsPeer,       \* the channel's other end: open, closed
    rCtx          \* forwardTraffic's ctx is done

brokerVars == <<tunnels, tunnelsMu, pc, req, resp, loc, created, snap>>

agentVars == <<flags, aPc, subdomain, headers, retryDelay, fails, ctxDone, conn,
               netUp, hPc, listener, fwd, exit, lastErr>>

relayVars == <<side, lPc, buf, nRead, wPc, msg, tcpIn, tcpOut, tcpSent, wsIn, wsOut,
               wsSent, wsCount, tcpLocal, tcpPeer, wsLocal, wsPeer, rCtx>>

vars == <<brokerVars, agentVars, relayVars>>

Tasks == 1..NumTasks

\* ------------------------------------------------------------------ requests

NoReq == [kind |-> "none", malformed |-> FALSE, sub |-> <<>>, port |-> <<>>,
          key |-> <<>>, host |-> <<>>, handshake |-> FALSE]

Keys == {Secret, BadKey}
Ports == {P_80, P_8080, P_http}
Subdomains == {S_test, S_demo, S_myapp1, S_empty, S_MyApp, S_my_app, S_a_b}
Hosts == {S_demo \o S_dotExampleCom, S_unknown \o S_dotExampleCom,
          S_test, S_dotExampleCom}

\* POST /register bodies: one that does not decode, and decoded ones. The
\* port is varied where the handler reaches it (valid key, valid subdomain).
RegisterRequests ==
    {[NoReq EXCEPT !.kind = "register", !.malformed = TRUE]} \cup
    {[NoReq EXCEPT !.kind = "register", !.sub = s, !.port = P_80, !.key = k] :
        s \in Subdomains, k \in Keys} \cup
    {[NoReq EXCEPT !.kind = "register", !.sub = s, !.port = p, !.key = Secret] :
        s \in {x \in Subdomains : isValidSubdomain(x)}, p \in Ports}

\* GET /tunnel requests: the two headers, and whether the request is a
\* well-formed WebSocket handshake.
TunnelRequests ==
    {[NoReq EXCEPT !.kind = "tunnel", !.sub = s, !.key = Secret, !.handshake = TRUE] :
        s \in {S_test, S_demo, S_unknown}} \cup
    {[NoReq EXCEPT !.kind = "tunnel", !.sub = s, !.key = BadKey, !.handshake = TRUE] :
        s \in {S_test, S_unknown}} \cup
    {[NoReq EXCEPT !.kind = "tunnel", !.sub = S_test, !.key = Secret]}

\* Any other request, routed by its Host header.
HTTPRequests ==
    {[NoReq EXCEPT !.kind = "http", !.host = h] : h \in Hosts}

\* A handler's locals (host, exists, target) and what it has done so far:
\* looked the registry up, written to it, upgraded the connection (and whether
\* that connection is still open), dialed a target, forwarded the request.
NoLoc == [host |-> <<>>, looked |-> FALSE, exists |-> FALSE, target |-> Nil,
          wrote |-> FALSE, upgraded |-> FALSE, connOpen |-> FALSE,
          dialed |-> FALSE, forwarded |-> FALSE]

\* --------------------------------------------------------------------- Init

\* main, line 36: the registry starts with the default tunnel "test".
BrokerInit ==
    /\ tunnels = [s \in {S_test} |-> urlParse(P_80)]
    /\ tunnelsMu = [w |-> 0, r |-> {}]
    /\ pc = [t \in Tasks |-> "accept"]
    /\ req = [t \in Tasks |-> NoReq]
    /\ resp = [t \in Tasks |-> NoResponse]
    /\ loc = [t \in Tasks |-> NoLoc]
    /\ created = {}
    /\ snap = [t \in Tasks |-> {}]

\* The agent before main runs.
AgentIdle ==
    /\ flags = [subdomain |-> <<>>, port |-> <<>>, apikey |-> <<>>]
    /\ aPc = "off"
    /\ subdomain = <<>>
    /\ headers = [key |-> <<>>, sub |-> <<>>]
    /\ retryDelay = 0
    /\ fails = 0
    /\ ctxDone = FALSE
    /\ conn = "none"
    /\ netUp = TRUE
    /\ hPc = "none"
    /\ listener = "none"
    /\ fwd = [i \in 1..MaxLocalConns |-> "none"]
    /\ exit = "running"
    /\ lastErr = "none"

\* No relay pairing.
RelayIdle ==
    /\ side = "off"
    /\ lPc = "off" /\ wPc = "off"
    /\ buf = [i \in 1..BufSize |-> 0]
    /\ nRead = 0
    /\ msg = <<>>
    /\ tcpIn = <<>> /\ tcpOut = <<>> /\ tcpSent = <<>>
    /\ wsIn = <<>> /\ wsOut = <<>> /\ wsSent = <<>>
    /\ wsCount = 0
    /\ tcpLocal = "open" /\ tcpPeer = "open"
    /\ wsLocal = "open" /\ wsPeer = "open"
    /\ rCtx = FALSE

Init == BrokerInit /\ AgentIdle /\ RelayIdle

\* ---------------------------------------------------------- the registry lock

\* sync.RWMutex.Lock: no writer and no reader holds it.
CanLock_none(t) == TRUE

CanLock(t) == tunnelsMu.w = 0 /\ tunnelsMu.r = {}

\* sync.RWMutex.RLock: no writer holds it.
CanRLock(t) == tunnelsMu.w = 0

\* tunnels[subdomain] = targetURL
insert(m, s, target) ==
    [k \in DOMAIN m \cup {s} |-> IF k = s THEN target ELSE m[k]]

Finish(t, status) ==
    /\ pc' = [pc EXCEPT ![t] = "done"]
    /\ resp' = [resp EXCEPT ![t] = status]

\* ------------------------------------------------------------ handleRegister

\* Lines 154-171: decode the body, compare the key, validate the subdomain.
RegisterArrives(t, r) ==
    /\ pc[t] = "accept"
    /\ req' = [req EXCEPT ![t] = r]
    /\ snap' = [snap EXCEPT ![t] = created]
    /\ loc' = [loc EXCEPT ![t] = NoLoc]
    /\ IF r.malformed THEN Finish(t, StatusBadRequest)
       ELSE IF r.key # Secret THEN Finish(t, StatusUnauthorized)
       ELSE IF ~isValidSubdomain(r.sub) THEN Finish(t, StatusBadRequest)
       ELSE pc' = [pc EXCEPT ![t] = "reg_lock"] /\ resp' = [resp EXCEPT ![t] = NoResponse]
    /\ UNCHANGED <<tunnels, tunnelsMu, created>>

RegisterBegin(t) ==
    /\ \E r \in RegisterRequests : RegisterArrives(t, r)
    /\ UNCHANGED <<agentVars, relayVars>>

\* Line 174: tunnelsMu.Lock().
RegisterLock(t) ==
    /\ pc[t] = "reg_lock"
    /\ CanLock(t)
    /\ tunnelsMu' = [tunnelsMu EXCEPT !.w = t]
    /\ pc' = [pc EXCEPT ![t] = "reg_check"]
    /\ UNCHANGED <<tunnels, req, resp, loc, created, snap, agentVars, relayVars>>

\* Lines 175-179: the existence test; on a hit Unlock and answer 409.
RegisterCheck_skipInsert(t) ==
    /\ pc[t] = "reg_check"
    /\ tunnelsMu' = [tunnelsMu EXCEPT !.w = IF @ = t THEN 0 ELSE @]
    /\ IF req[t].sub \in DOMAIN tunnels
       THEN /\ loc' = [loc EXCEPT ![t].looked = TRUE, ![t].exists = TRUE]
            /\ Finish(t, StatusConflict)
       ELSE /\ pc' = [pc EXCEPT ![t] = "reg_respond"]
            /\ loc' = [loc EXCEPT ![t].looked = TRUE,
                                  ![t].target = urlParse(req[t].port)]
            /\ UNCHANGED resp
    /\ UNCHANGED <<tunnels, req, created, snap, agentVars, relayVars>>

\* The existence test left out: the entry is written whether or not the
\* subdomain is registered.
RegisterCheck_overwrite(t) ==
    /\ pc[t] = "reg_check"
    /\ pc' = [pc EXCEPT ![t] = "reg_insert"]
    /\ loc' = [loc EXCEPT ![t].looked = TRUE]
    /\ UNCHANGED <<tunnelsMu, resp>>
    /\ UNCHANGED <<tunnels, req, created, snap, agentVars, relayVars>>

RegisterCheck(t) ==
    /\ pc[t] = "reg_check"
    /\ IF req[t].sub \in DOMAIN tunnels
       THEN /\ tunnelsMu' = [tunnelsMu EXCEPT !.w = IF @ = t THEN 0 ELSE @]
            /\ loc' = [loc EXCEPT ![t].looked = TRUE, ![t].exists = TRUE]
            /\ Finish(t, StatusConflict)
       ELSE /\ pc' = [pc EXCEPT ![t] = "reg_insert"]
            /\ loc' = [loc EXCEPT ![t].looked = TRUE]
            /\ UNCHANGED <<tunnelsMu, resp>>
    /\ UNCHANGED <<tunnels, req, created, snap, agentVars, relayVars>>

\* Lines 182-184: parse the target (error discarded), store it, Unlock.
RegisterInsert(t) ==
    /\ pc[t] = "reg_insert"
    /\ LET targetURL == urlParse(req[t].port) IN
          /\ tunnels' = insert(tunnels, req[t].sub, targetURL)
          /\ loc' = [loc EXCEPT ![t].target = targetURL, ![t].wrote = TRUE]
    /\ tunnelsMu' = [tunnelsMu EXCEPT !.w = IF @ = t THEN 0 ELSE @]
    /\ pc' = [pc EXCEPT ![t] = "reg_respond"]
    /\ UNCHANGED <<req, resp, created, snap, agentVars, relayVars>>

\* Lines 186-188: log targetURL.String(), which dereferences targetURL and
\* panics on nil before any header is written; otherwise answer 201.
RegisterRespond(t) ==
    /\ pc[t] = "reg_respond"
    /\ IF loc[t].target.nil
       THEN Finish(t, Aborted) /\ UNCHANGED created
       ELSE /\ Finish(t, StatusCreated)
            /\ created' = created \cup {<<req[t].sub, req[t].port>>}
    /\ UNCHANGED <<tunnels, tunnelsMu, req, loc, snap, agentVars, relayVars>>

handleRegister(t) ==
    \/ RegisterBegin(t)
    \/ RegisterLock(t)
    \/ RegisterCheck(t)
    \/ RegisterInsert(t)
    \/ RegisterRespond(t)

\* -------------------------------------------------------------- handleTunnel

\* Lines 65-76: the key check (401), then upgrader.Upgrade, which hijacks the
\* connection and answers 101, or answers 400 itself when the request is no
\* WebSocket handshake. The registry has not been read yet.
TunnelArrives(t, r) ==
    /\ pc[t] = "accept"
    /\ req' = [req EXCEPT ![t] = r]
    /\ snap' = [snap EXCEPT ![t] = created]
    /\ IF r.key # Secret
       THEN Finish(t, StatusUnauthorized) /\ loc' = [loc EXCEPT ![t] = NoLoc]
       ELSE IF ~r.handshake
       THEN Finish(t, StatusBadRequest) /\ loc' = [loc EXCEPT ![t] = NoLoc]
       ELSE /\ resp' = [resp EXCEPT ![t] = StatusSwitchingProtocols]
            /\ loc' = [loc EXCEPT ![t] = [NoLoc EXCEPT !.upgraded = TRUE,
                                                       !.connOpen = TRUE]]
            /\ pc' = [pc EXCEPT ![t] = "tun_rlock"]
    /\ UNCHANGED <<tunnels, tunnelsMu, created>>

TunnelBegin(t) ==
    /\ \E r \in TunnelRequests : TunnelArrives(t, r)
    /\ UNCHANGED <<agentVars, relayVars>>

\* Line 79: tunnelsMu.RLock().
TunnelRLock(t) ==
    /\ pc[t] = "tun_rlock"
    /\ CanRLock(t)
    /\ tunnelsMu' = [tunnelsMu EXCEPT !.r = @ \cup {t}]
    /\ pc' = [pc EXCEPT ![t] = "tun_lookup"]
    /\ UNCHANGED <<tunnels, req, resp, loc, created, snap, agentVars, relayVars>>

\* http.Error on a hijacked connection: WriteHeader and Write fail with
\* ErrHijacked, nothing reaches the client, whose status stays what the
\* upgrade sent.
httpErrorHijacked(t, status) == resp[t]

\* Lines 80-87: the lookup, RUnlock; on a miss http.Error(404) on the hijacked
\* connection, return, and the deferred conn.Close().
TunnelLookup(t) ==
    /\ pc[t] = "tun_lookup"
    /\ tunnelsMu' = [tunnelsMu EXCEPT !.r = @ \ {t}]
    /\ LET exists == req[t].sub \in DOMAIN tunnels IN
       IF exists
       THEN /\ loc' = [loc EXCEPT ![t].looked = TRUE, ![t].exists = TRUE,
                                  ![t].target = tunnels[req[t].sub]]
            /\ pc' = [pc EXCEPT ![t] = "tun_dial"]
            /\ UNCHANGED resp
       ELSE /\ loc' = [loc EXCEPT ![t].looked = TRUE, ![t].connOpen = FALSE]
            /\ Finish(t, httpErrorHijacked(t, StatusNotFound))
    /\ UNCHANGED <<tunnels, req, created, snap, agentVars, relayVars>>

\* Lines 89-95: net.Dial("tcp", target.Host). target.Host on a nil target
\* panics (the deferred conn.Close() runs); a failed dial ends the handler
\* after http.Error(502) on the hijacked connection.
TunnelDial(t) ==
    /\ pc[t] = "tun_dial"
    /\ IF loc[t].target.nil
       THEN /\ loc' = [loc EXCEPT ![t].connOpen = FALSE]
            /\ Finish(t, resp[t])
       ELSE \/ /\ loc' = [loc EXCEPT ![t].dialed = TRUE]
               /\ pc' = [pc EXCEPT ![t] = "tun_relay"]
               /\ UNCHANGED resp
            \/ /\ loc' = [loc EXCEPT ![t].connOpen = FALSE]
               /\ Finish(t, httpErrorHijacked(t, StatusBadGateway))
    /\ UNCHANGED <<tunnels, tunnelsMu, req, created, snap, agentVars, relayVars>>

\* Lines 98-131: the relay runs until the local read loop returns; the
\* deferred localConn.Close() and conn.Close() run. (The relay's steps are
\* RelaySpec's.)
TunnelRelayReturn(t) ==
    /\ pc[t] = "tun_relay"
    /\ loc' = [loc EXCEPT ![t].connOpen = FALSE]
    /\ Finish(t, resp[t])
    /\ UNCHANGED <<tunnels, tunnelsMu, req, created, snap, agentVars, relayVars>>

handleTunnel(t) ==
    \/ TunnelBegin(t)
    \/ TunnelRLock(t)
    \/ TunnelLookup(t)
    \/ TunnelDial(t)
    \/ TunnelRelayReturn(t)

\* ---------------------------------------------------------------- handleHTTP

\* Line 136: the routing key.
HTTPBegin(t) ==
    /\ pc[t] = "accept"
    /\ \E r \in HTTPRequests :
          /\ req' = [req EXCEPT ![t] = r]
          /\ loc' = [loc EXCEPT ![t].host = splitHost(r.host)]
    /\ snap' = [snap EXCEPT ![t] = created]
    /\ pc' = [pc EXCEPT ![t] = "http_rlock"]
    /\ UNCHANGED <<tunnels, tunnelsMu, resp, created, agentVars, relayVars>>

\* Line 137: tunnelsMu.RLock().
HTTPRLock(t) ==
    /\ pc[t] = "http_rlock"
    /\ CanRLock(t)
    /\ tunnelsMu' = [tunnelsMu EXCEPT !.r = @ \cup {t}]
    /\ pc' = [pc EXCEPT ![t] = "http_lookup"]
    /\ UNCHANGED <<tunnels, req, resp, loc, created, snap, agentVars, relayVars>>

\* What handleHTTP does on a miss: 404, nothing forwarded.
HTTPMiss_forward(t) ==
    /\ loc' = [loc EXCEPT ![t].looked = TRUE, ![t].forwarded = TRUE]
    /\ Finish(t, StatusNotFound)

HTTPMiss(t) ==
    /\ loc' = [loc EXCEPT ![t].looked = TRUE]
    /\ Finish(t, StatusNotFound)

\* Lines 138-145: the lookup, RUnlock; on a miss answer 404 and return.
HTTPLookup(t) ==
    /\ pc[t] = "http_lookup"
    /\ tunnelsMu' = [tunnelsMu EXCEPT !.r = @ \ {t}]
    /\ IF loc[t].host \in DOMAIN tunnels
       THEN /\ loc' = [loc EXCEPT ![t].looked = TRUE, ![t].exists = TRUE,
                                  ![t].target = tunnels[loc[t].host]]
            /\ pc' = [pc EXCEPT ![t] = "http_proxy"]
            /\ UNCHANGED resp
       ELSE HTTPMiss(t)
    /\ UNCHANGED <<tunnels, req, created, snap, agentVars, relayVars>>

\* Lines 148-149: httputil.NewSingleHostReverseProxy(target) reads the
\* target's fields and panics on nil; otherwise the proxy dials target.Host
\* itself and passes the upstream's answer through, or answers 502 when the
\* target cannot be reached.
HTTPProxy(t) ==
    /\ pc[t] = "http_proxy"
    /\ IF loc[t].target.nil
       THEN Finish(t, Aborted) /\ UNCHANGED loc
       ELSE /\ loc' = [loc EXCEPT ![t].dialed = TRUE, ![t].forwarded = TRUE]
            /\ \E status \in {StatusOK, StatusBadGateway} : Finish(t, status)
    /\ UNCHANGED <<tunnels, tunnelsMu, req, created, snap, agentVars, relayVars>>

handleHTTP(t) ==
    \/ HTTPBegin(t)
    \/ HTTPRLock(t)
    \/ HTTPLookup(t)
    \/ HTTPProxy(t)

\* ---------------------------------------------------------------- the broker

\* main, lines 38-60: the router serves every request on a goroutine of its
\* own.
Next == \E t \in Tasks : handleRegister(t) \/ handleTunnel(t) \/ handleHTTP(t)

Spec == Init /\ [][Next]_vars

\* ======================================================= the agent: main

\* The broker goroutine that serves the agent's requests.
AgentTask == 1

\* strconv's decimal digits of n >= 0, as fmt's %d prints them.
RECURSIVE itoa(_)
itoa(n) == IF n < 10 THEN <<48 + n>> ELSE itoa(n \div 10) \o <<48 + (n % 10)>>

\* Line 64: fmt.Sprintf("%s-%d", *subdomainFlag, rand.Intn(1000)).
candidate_chained(current, base, n) == current \o <<45>> \o itoa(n)

candidate(current, base, n) == base \o <<45>> \o itoa(n)

Suffixes == 0..(SuffixChoices - 1)

\* Lines 184-190.
increaseDelay_uncapped(currentDelay, max) == currentDelay * 2

increaseDelay(currentDelay, max) ==
    LET next == currentDelay * 2 IN
    IF next > max THEN max ELSE next

\* Lines 80-81 and 50, in seconds.
floorRetryDelay == 2
maxRetryDelay == 60
registerRetrySleep == 5

Running == exit = "running"

\* The registries an agent can find when it starts: the default tunnel, and
\* whatever of the names it may ask for earlier agents have registered.
StartRegistries ==
    {[s \in {S_test} \cup X |-> urlParse(P_80)] :
        X \in SUBSET ({S_demo} \cup {candidate(S_demo, S_demo, n) : n \in Suffixes})}

\* Lines 23-30: the flags, and subdomain := *subdomainFlag.
AgentInit ==
    /\ tunnels \in StartRegistries
    /\ tunnelsMu = [w |-> 0, r |-> {}]
    /\ pc = [t \in Tasks |-> "accept"]
    /\ req = [t \in Tasks |-> NoReq]
    /\ resp = [t \in Tasks |-> NoResponse]
    /\ loc = [t \in Tasks |-> NoLoc]
    /\ created = {}
    /\ snap = [t \in Tasks |-> {}]
    /\ flags \in [subdomain : {S_demo, S_MyApp}, port : {P_80, P_http},
                  apikey : Keys]
    /\ aPc = "register"
    /\ subdomain = flags.subdomain
    /\ headers = [key |-> <<>>, sub |-> <<>>]
    /\ retryDelay = 0
    /\ fails = 0
    /\ ctxDone = FALSE
    /\ conn = "none"
    /\ netUp = TRUE
    /\ hPc = "none"
    /\ listener = "none"
    /\ fwd = [i \in 1..MaxLocalConns |-> "none"]
    /\ exit = "running"
    /\ lastErr = "none"
    /\ RelayIdle

\* Lines 34-47: build the body and http.Post it; the handler starts on the
\* broker.
AgentPost ==
    /\ Running /\ aPc = "register"
    /\ RegisterArrives(AgentTask,
          [NoReq EXCEPT !.kind = "register", !.sub = subdomain,
                        !.port = flags.port, !.key = flags.apikey])
    /\ aPc' = "reg_await"
    /\ UNCHANGED <<flags, subdomain, headers, retryDelay, fails, ctxDone, conn,
                   netUp, hPc, listener, fwd, exit, lastErr>>
    /\ UNCHANGED relayVars

\* Lines 47-52: http.Post fails before any broker handler runs (broker
\* unreachable); main will sleep and repeat the exchange.
AgentPostFails ==
    /\ Running /\ aPc = "register"
    /\ aPc' = "reg_sleep"
    /\ lastErr' = "transport"
    /\ UNCHANGED <<brokerVars, flags, subdomain, headers, retryDelay, fails,
                   ctxDone, conn, netUp, hPc, listener, fwd, exit>>
    /\ UNCHANGED relayVars

\* Line 50: time.Sleep(5 * time.Second); continue.
AgentRegSleep ==
    /\ Running /\ aPc = "reg_sleep"
    /\ aPc' = "register"
    /\ UNCHANGED <<brokerVars, flags, subdomain, headers, retryDelay, fails,
                   ctxDone, conn, netUp, hPc, listener, fwd, exit, lastErr>>
    /\ UNCHANGED relayVars

\* The broker goroutine is free for the next request.
ReleaseTask ==
    /\ pc' = [pc EXCEPT ![AgentTask] = "accept"]
    /\ UNCHANGED <<tunnels, tunnelsMu, req, resp, loc, created, snap>>

\* Lines 47-81: the response. A connection the handler's panic closed is an
\* http.Post error (sleep, repeat); 201 leaves the loop and sets up ctx, the
\* headers and retryDelay; 409 draws a new candidate; anything else is
\* log.Fatalf.
AgentResponse ==
    /\ Running /\ aPc = "reg_await"
    /\ pc[AgentTask] = "done"
    /\ ReleaseTask
    /\ LET status == resp[AgentTask] IN
       IF status = Aborted
       THEN /\ aPc' = "reg_sleep"
            /\ lastErr' = "transport"
            /\ UNCHANGED <<subdomain, headers, retryDelay, exit>>
       ELSE IF status = StatusCreated
       THEN /\ aPc' = "select"
            /\ headers' = [key |-> flags.apikey, sub |-> subdomain]
            /\ retryDelay' = floorRetryDelay
            /\ UNCHANGED <<subdomain, exit, lastErr>>
       ELSE IF status = StatusConflict
       THEN /\ \E n \in Suffixes :
                 subdomain' = candidate(subdomain, flags.subdomain, n)
            /\ aPc' = "register"
            /\ lastErr' = "conflict"
            /\ UNCHANGED <<headers, retryDelay, exit>>
       ELSE /\ exit' = "fatal_register"
            /\ aPc' = "exited"
            /\ lastErr' = IF status = StatusUnauthorized THEN "unauthorized"
                          ELSE "rejected"
            /\ UNCHANGED <<subdomain, headers, retryDelay>>
    /\ UNCHANGED <<flags, fails, ctxDone, conn, netUp, hPc, listener, fwd>>
    /\ UNCHANGED relayVars

\* Lines 84-87: ctx is done: main returns, the process ends.
AgentShutdown ==
    /\ Running /\ aPc = "select"
    /\ ctxDone
    /\ exit' = "shutdown"
    /\ aPc' = "exited"
    /\ UNCHANGED <<brokerVars, flags, subdomain, headers, retryDelay, fails,
                   ctxDone, conn, netUp, hPc, listener, fwd, lastErr>>
    /\ UNCHANGED relayVars

\* The dial with the name of the command line instead of the registered one.
AgentDial_base ==
    /\ Running /\ aPc = "select"
    /\ ~ctxDone
    /\ netUp
    /\ TunnelArrives(AgentTask,
          [NoReq EXCEPT !.kind = "tunnel", !.sub = flags.subdomain,
                        !.key = headers.key, !.handshake = TRUE])
    /\ aPc' = "dial_await"
    /\ UNCHANGED <<flags, subdomain, headers, retryDelay, fails, ctxDone, conn,
                   netUp, hPc, listener, fwd, exit, lastErr>>
    /\ UNCHANGED relayVars

\* Lines 88-90: the default case dials the broker, whose handleTunnel starts.
AgentDial ==
    /\ Running /\ aPc = "select"
    /\ ~ctxDone
    /\ netUp
    /\ TunnelArrives(AgentTask,
          [NoReq EXCEPT !.kind = "tunnel", !.sub = headers.sub,
                        !.key = headers.key, !.handshake = TRUE])
    /\ aPc' = "dial_await"
    /\ UNCHANGED <<flags, subdomain, headers, retryDelay, fails, ctxDone, conn,
                   netUp, hPc, listener, fwd, exit, lastErr>>
    /\ UNCHANGED relayVars

\* Lines 90-92: the dial fails before the broker answers (unreachable, TLS).
AgentDialFails ==
    /\ Running /\ aPc = "select"
    /\ ~ctxDone
    /\ fails < MaxFails
    /\ aPc' = "backoff"
    /\ fails' = fails + 1
    /\ lastErr' = "dial"
    /\ UNCHANGED <<brokerVars, flags, subdomain, headers, retryDelay, ctxDone,
                   conn, netUp, hPc, listener, fwd, exit>>
    /\ UNCHANGED relayVars

\* Lines 90-103: Dial returns. 101 is a connection: reset retryDelay, start
\* handleConnection on connectionCtx and wait; any other status is
\* ErrBadHandshake.
AgentDialResult ==
    /\ Running /\ aPc = "dial_await"
    /\ IF resp[AgentTask] = StatusSwitchingProtocols
       THEN /\ retryDelay' = floorRetryDelay
            /\ fails' = 0
            /\ conn' = "open"
            /\ hPc' = "listen"
            /\ aPc' = "wait"
            /\ UNCHANGED <<brokerVars, lastErr>>
       ELSE /\ pc[AgentTask] = "done"
            /\ fails < MaxFails
            /\ ReleaseTask
            /\ aPc' = "backoff"
            /\ fails' = fails + 1
            /\ lastErr' = "dial"
            /\ UNCHANGED <<retryDelay, conn, hPc>>
    /\ UNCHANGED <<flags, subdomain, headers, ctxDone, netUp, listener, fwd, exit>>
    /\ UNCHANGED relayVars

\* A backoff that goes back to the registration loop.
AgentBackoff_reregister ==
    /\ Running /\ aPc = "backoff"
    /\ retryDelay' = increaseDelay(retryDelay, maxRetryDelay)
    /\ aPc' = "register"
    /\ UNCHANGED <<brokerVars, flags, subdomain, headers, fails, ctxDone, conn,
                   netUp, hPc, listener, fwd, exit, lastErr>>
    /\ UNCHANGED relayVars

\* Lines 93-95: time.Sleep(retryDelay), then the delay grows.
AgentBackoff ==
    /\ Running /\ aPc = "backoff"
    /\ retryDelay' = increaseDelay(retryDelay, maxRetryDelay)
    /\ aPc' = "select"
    /\ UNCHANGED <<brokerVars, flags, subdomain, headers, fails, ctxDone, conn,
                   netUp, hPc, listener, fwd, exit, lastErr>>
    /\ UNCHANGED relayVars

\* connectionCtx is a child of ctx; its cancel is called on line 107 only,
\* after the wait: it is done exactly when ctx is.
connectionCtxDone == ctxDone

\* Lines 106-108: <-connectionCtx.Done(), cancel(), conn.Close().
AgentWait ==
    /\ Running /\ aPc = "wait"
    /\ connectionCtxDone
    /\ conn' = "closed"
    /\ aPc' = "select"
    /\ UNCHANGED <<brokerVars, flags, subdomain, headers, retryDelay, fails,
                   ctxDone, netUp, hPc, listener, fwd, exit, lastErr>>
    /\ UNCHANGED relayVars

main ==
    \/ AgentPost
    \/ AgentPostFails
    \/ AgentRegSleep
    \/ AgentResponse
    \/ AgentShutdown
    \/ AgentDial
    \/ AgentDialFails
    \/ AgentDialResult
    \/ AgentBackoff
    \/ AgentWait

\* ------------------------------------------------------- handleConnection

\* Lines 116-121: net.Listen; on an error log.Fatalf ends the process.
HCListen_continue ==
    /\ Running /\ hPc = "listen"
    /\ \/ /\ listener' = "open"
          /\ hPc' = "select"
          /\ UNCHANGED <<exit, lastErr, aPc>>
       \/ /\ lastErr' = "listen"
          /\ hPc' = "select"
          /\ UNCHANGED <<listener, aPc, exit>>
    /\ UNCHANGED <<brokerVars, flags, subdomain, headers, retryDelay, fails,
                   ctxDone, conn, netUp, fwd>>
    /\ UNCHANGED relayVars

HCListen ==
    /\ Running /\ hPc = "listen"
    /\ \/ /\ listener' = "open"
          /\ hPc' = "select"
          /\ UNCHANGED <<exit, lastErr, aPc>>
       \/ /\ exit' = "fatal_listen"
          /\ lastErr' = "listen"
          /\ aPc' = "exited"
          /\ UNCHANGED <<listener, hPc>>
    /\ UNCHANGED <<brokerVars, flags, subdomain, headers, retryDelay, fails,
                   ctxDone, conn, netUp, fwd>>
    /\ UNCHANGED relayVars

\* Lines 124-127: ctx is done: return, and the deferred localListener.Close()
\* and conn.Close() run.
HCReturn ==
    /\ Running /\ hPc = "select"
    /\ connectionCtxDone
    /\ hPc' = "returned"
    /\ listener' = "closed"
    /\ conn' = "closed"
    /\ UNCHANGED <<brokerVars, flags, aPc, subdomain, headers, retryDelay, fails,
                   ctxDone, netUp, fwd, exit, lastErr>>
    /\ UNCHANGED relayVars

\* Lines 127-128: the default case calls Accept, which blocks.
HCSelectDefault ==
    /\ Running /\ hPc = "select"
    /\ ~connectionCtxDone
    /\ hPc' = "accept"
    /\ UNCHANGED <<brokerVars, flags, aPc, subdomain, headers, retryDelay, fails,
                   ctxDone, conn, netUp, listener, fwd, exit, lastErr>>
    /\ UNCHANGED relayVars

\* Lines 128-134: a local client connects: go forwardTraffic(ctx, localConn,
\* conn), with the session's one control channel.
HCAccept ==
    /\ Running /\ hPc = "accept"
    /\ \E i \in 1..MaxLocalConns :
          /\ fwd[i] = "none"
          /\ \A j \in 1..(i - 1) : fwd[j] # "none"
          /\ fwd' = [fwd EXCEPT ![i] = "relaying"]
    /\ hPc' = "select"
    /\ UNCHANGED <<brokerVars, flags, aPc, subdomain, headers, retryDelay, fails,
                   ctxDone, conn, netUp, listener, exit, lastErr>>
    /\ UNCHANGED relayVars

\* Lines 129-132: Accept returns an error: log it and continue.
HCAcceptFails ==
    /\ Running /\ hPc = "accept"
    /\ hPc' = "select"
    /\ lastErr' = "accept"
    /\ UNCHANGED <<brokerVars, flags, aPc, subdomain, headers, retryDelay, fails,
                   ctxDone, conn, netUp, listener, fwd, exit>>
    /\ UNCHANGED relayVars

handleConnection ==
    \/ HCListen
    \/ HCReturn
    \/ HCSelectDefault
    \/ HCAccept
    \/ HCAcceptFails

\* The control channel no longer carries data: the agent's end or the
\* broker's end is closed, or the path between them is down.
ChannelDropped ==
    \/ conn = "closed"
    \/ ~netUp
    \/ ~loc[AgentTask].connOpen

\* Lines 139-182, as the session sees one forwardTraffic call: it returns
\* (closing its localConn) when a read or write fails, on the channel or on
\* the local connection, or when ctx is done at a loop head. Its steps are
\* RelaySpec's.
FwdReturn(i) ==
    /\ Running /\ fwd[i] = "relaying"
    /\ fwd' = [fwd EXCEPT ![i] = "returned"]
    /\ lastErr' = IF connectionCtxDone THEN lastErr ELSE "relay"
    /\ UNCHANGED <<brokerVars, flags, aPc, subdomain, headers, retryDelay, fails,
                   ctxDone, conn, netUp, hPc, listener, exit>>
    /\ UNCHANGED relayVars

forwardTraffic == \E i \in 1..MaxLocalConns : FwdReturn(i)

\* -------------------------------------------------- the agent's environment

\* Line 73: os.Interrupt cancels ctx (before line 73 the signal is not
\* caught).
Interrupt ==
    /\ Running /\ aPc \in {"select", "dial_await", "backoff", "wait"}
    /\ ~ctxDone
    /\ ctxDone' = TRUE
    /\ UNCHANGED <<brokerVars, flags, aPc, subdomain, headers, retryDelay, fails,
                   conn, netUp, hPc, listener, fwd, exit, lastErr>>
    /\ UNCHANGED relayVars

\* The network path of the open control channel goes down.
NetDrop ==
    /\ conn = "open" /\ netUp
    /\ netUp' = FALSE
    /\ UNCHANGED <<brokerVars, flags, aPc, subdomain, headers, retryDelay, fails,
                   ctxDone, conn, hPc, listener, fwd, exit, lastErr>>
    /\ UNCHANGED relayVars

\* The broker's goroutine serving the agent's request.
AgentBroker ==
    \/ RegisterLock(AgentTask)
    \/ RegisterCheck(AgentTask)
    \/ RegisterInsert(AgentTask)
    \/ RegisterRespond(AgentTask)
    \/ TunnelRLock(AgentTask)
    \/ TunnelLookup(AgentTask)
    \/ TunnelDial(AgentTask)
    \/ TunnelRelayReturn(AgentTask)

AgentNext ==
    \/ main
    \/ handleConnection
    \/ forwardTraffic
    \/ Interrupt
    \/ NetDrop
    \/ AgentBroker

AgentSpec == AgentInit /\ [][AgentNext]_vars

\* The Go scheduler runs every goroutine that can take a step; nothing makes
\* the signal arrive, a local client connect, an I/O error happen or the
\* network fail.
AgentLiveSpec ==
    /\ AgentSpec
    /\ WF_vars(main)
    /\ WF_vars(HCListen \/ HCReturn \/ HCSelectDefault)
    /\ WF_vars(AgentBroker)

\* ========================================================= a relay pairing

Min(a, b) == IF a < b THEN a ELSE b

RECURSIVE Flatten(_)
Flatten(ms) == IF ms = <<>> THEN <<>> ELSE Head(ms) \o Flatten(Tail(ms))

\* The pairing as handleTunnel starts it (line 97, connections open, the
\* goroutine and the loop about to read) or as forwardTraffic does (line 143,
\* each loop at its select).
RelayInit ==
    /\ BrokerInit
    /\ AgentIdle
    /\ side \in {"broker", "agent"}
    /\ lPc = (IF side = "agent" THEN "select" ELSE "read")
    /\ wPc = (IF side = "agent" THEN "select" ELSE "read")
    /\ buf = [i \in 1..BufSize |-> 0]
    /\ nRead = 0
    /\ msg = <<>>
    /\ tcpIn = <<>> /\ tcpOut = <<>> /\ tcpSent = <<>>
    /\ wsIn = <<>> /\ wsOut = <<>> /\ wsSent = <<>>
    /\ wsCount = 0
    /\ tcpLocal = "open" /\ tcpPeer = "open"
    /\ wsLocal = "open" /\ wsPeer = "open"
    /\ rCtx = FALSE

\* buf[:n]
chunk_whole(b, k) == b

chunk(b, k) == SubSeq(b, 1, k)

\* localConn.Read(buf): an error on a closed connection and at end of stream;
\* otherwise it blocks until bytes are there and copies some of them, at most
\* len(buf), to the front of buf. `fail` is what the caller does on an error.
LocalRead(fail) ==
    IF tcpLocal = "closed" THEN fail
    ELSE IF tcpIn # <<>>
    THEN /\ \E k \in 1..Min(BufSize, Len(tcpIn)) :
              /\ buf' = [i \in 1..BufSize |-> IF i <= k THEN tcpIn[i] ELSE buf[i]]
              /\ nRead' = k
              /\ tcpIn' = SubSeq(tcpIn, k + 1, Len(tcpIn))
         /\ lPc' = "write"
         /\ UNCHANGED <<wPc, tcpLocal, wsLocal>>
    ELSE tcpPeer = "closed" /\ fail

\* conn.WriteMessage(BinaryMessage, buf[:n]): one message; an error on a
\* closed connection, and possibly on one whose peer is gone.
WsWrite(again, fail) ==
    IF wsLocal = "closed" THEN fail /\ UNCHANGED wsOut
    ELSE \/ /\ wsOut' = Append(wsOut, chunk(buf, nRead))
            /\ lPc' = again
            /\ UNCHANGED <<wPc, tcpLocal, wsLocal>>
         \/ /\ wsPeer = "closed"
            /\ fail
            /\ UNCHANGED wsOut

\* conn.ReadMessage(): the next whole message; an error on a closed
\* connection and once the peer is gone; otherwise it blocks.
WsRead(fail) ==
    IF wsLocal = "closed" THEN fail /\ UNCHANGED <<msg, wsIn>>
    ELSE IF wsIn # <<>>
    THEN /\ msg' = Head(wsIn)
         /\ wsIn' = Tail(wsIn)
         /\ wPc' = "write"
         /\ UNCHANGED <<lPc, tcpLocal, wsLocal>>
    ELSE wsPeer = "closed" /\ fail /\ UNCHANGED <<msg, wsIn>>

\* localConn.Write(msg): all of msg; an error on a closed connection, and
\* possibly on one whose peer is gone.
LocalWrite(again, fail) ==
    IF tcpLocal = "closed" THEN fail /\ UNCHANGED tcpOut
    ELSE \/ /\ tcpOut' = tcpOut \o msg
            /\ wPc' = again
            /\ UNCHANGED <<lPc, tcpLocal, wsLocal>>
         \/ /\ tcpPeer = "closed"
            /\ fail
            /\ UNCHANGED tcpOut

RelayRest == UNCHANGED <<brokerVars, agentVars, side, tcpSent, wsSent, wsCount,
                         tcpPeer, wsPeer, rCtx>>

\* ----------------------------------------- handleTunnel, lines 104-131

\* Lines 108-111, 113-115: the goroutine returns; nothing else happens.
TunnelGoroutineReturns ==
    /\ wPc' = "done"
    /\ UNCHANGED <<lPc, tcpLocal, wsLocal>>

\* Lines 123-125, 128-130: handleTunnel returns, and the deferred
\* localConn.Close() and conn.Close() run.
TunnelReturns ==
    /\ lPc' = "done"
    /\ tcpLocal' = "closed"
    /\ wsLocal' = "closed"
    /\ UNCHANGED wPc

\* Line 107.
TunnelWsRead ==
    /\ side = "broker" /\ wPc = "read"
    /\ WsRead(TunnelGoroutineReturns)
    /\ UNCHANGED <<buf, nRead, tcpIn, tcpOut, wsOut>>
    /\ RelayRest

\* Line 98: the read deadline, set once, 60 s after the upgrade: no ping is
\* ever sent, so no pong moves it; when it passes ReadMessage fails.
TunnelReadDeadline ==
    /\ side = "broker" /\ wPc = "read" /\ wsLocal = "open"
    /\ TunnelGoroutineReturns
    /\ UNCHANGED <<buf, nRead, msg, tcpIn, tcpOut, wsIn, wsOut>>
    /\ RelayRest

\* Line 112.
TunnelLocalWrite ==
    /\ side = "broker" /\ wPc = "write"
    /\ LocalWrite("read", TunnelGoroutineReturns)
    /\ UNCHANGED <<buf, nRead, msg, tcpIn, wsIn, wsOut>>
    /\ RelayRest

\* Line 122.
TunnelLocalRead ==
    /\ side = "broker" /\ lPc = "read"
    /\ LocalRead(TunnelReturns /\ UNCHANGED <<buf, nRead, tcpIn>>)
    /\ UNCHANGED <<msg, tcpOut, wsIn, wsOut>>
    /\ RelayRest

\* Line 127.
TunnelWsWrite ==
    /\ side = "broker" /\ lPc = "write"
    /\ WsWrite("read", TunnelReturns)
    /\ UNCHANGED <<buf, nRead, msg, tcpIn, tcpOut, wsIn>>
    /\ RelayRest

handleTunnelRelay ==
    \/ TunnelWsRead
    \/ TunnelReadDeadline
    \/ TunnelLocalWrite
    \/ TunnelLocalRead
    \/ TunnelWsWrite

\* ---------------------------------------- forwardTraffic, lines 139-182

\* Lines 148, 153, 158: the goroutine returns; nothing else happens.
FwdGoroutineReturns ==
    /\ lPc' = "done"
    /\ UNCHANGED <<wPc, tcpLocal, wsLocal>>

\* Lines 168, 173, 178: forwardTraffic returns, and the deferred
\* localConn.Close() runs; the control channel is the session's.
FwdReturns ==
    /\ wPc' = "done"
    /\ tcpLocal' = "closed"
    /\ UNCHANGED <<lPc, wsLocal>>

\* Lines 146-149: the goroutine's select.
FwdGoroutineSelect ==
    /\ side = "agent" /\ lPc = "select"
    /\ IF rCtx THEN FwdGoroutineReturns
       ELSE lPc' = "read" /\ UNCHANGED <<wPc, tcpLocal, wsLocal>>
    /\ UNCHANGED <<buf, nRead, msg, tcpIn, tcpOut, wsIn, wsOut>>
    /\ RelayRest

\* Line 150.
FwdLocalRead ==
    /\ side = "agent" /\ lPc = "read"
    /\ LocalRead(FwdGoroutineReturns /\ UNCHANGED <<buf, nRead, tcpIn>>)
    /\ UNCHANGED <<msg, tcpOut, wsIn, wsOut>>
    /\ RelayRest

\* Line 156.
FwdWsWrite ==
    /\ side = "agent" /\ lPc = "write"
    /\ WsWrite("select", FwdGoroutineReturns)
    /\ UNCHANGED <<buf, nRead, msg, tcpIn, tcpOut, wsIn>>
    /\ RelayRest

\* Lines 166-169: the loop's select.
FwdSelect ==
    /\ side = "agent" /\ wPc = "select"
    /\ IF rCtx THEN FwdReturns
       ELSE wPc' = "read" /\ UNCHANGED <<lPc, tcpLocal, wsLocal>>
    /\ UNCHANGED <<buf, nRead, msg, tcpIn, tcpOut, wsIn, wsOut>>
    /\ RelayRest

\* Line 170.
FwdWsRead ==
    /\ side = "agent" /\ wPc = "read"
    /\ WsRead(FwdReturns)
    /\ UNCHANGED <<buf, nRead, tcpIn, tcpOut, wsOut>>
    /\ RelayRest

\* Line 176.
FwdLocalWrite ==
    /\ side = "agent" /\ wPc = "write"
    /\ LocalWrite("select", FwdReturns)
    /\ UNCHANGED <<buf, nRead, msg, tcpIn, wsIn, wsOut>>
    /\ RelayRest

\* main, lines 106-108: once ctx is done main closes the control channel.
SessionClose ==
    /\ side = "agent" /\ rCtx /\ wsLocal = "open"
    /\ wsLocal' = "closed"
    /\ UNCHANGED <<brokerVars, agentVars, side, lPc, buf, nRead, wPc, msg, tcpIn,
                   tcpOut, tcpSent, wsIn, wsOut, wsSent, wsCount, tcpLocal,
                   tcpPeer, wsPeer, rCtx>>

forwardTrafficRelay ==
    \/ FwdGoroutineSelect
    \/ FwdLocalRead
    \/ FwdWsWrite
    \/ FwdSelect
    \/ FwdWsRead
    \/ FwdLocalWrite
    \/ SessionClose

\* ------------------------------------------------ the pairing's environment

\* The local connection's peer writes its next byte (bytes 1, 2, ...).
TcpPeerWrites ==
    /\ side # "off" /\ tcpPeer = "open" /\ tcpLocal = "open"
    /\ Len(tcpSent) < MaxPayload
    /\ LET b == Len(tcpSent) + 1 IN
          /\ tcpIn' = Append(tcpIn, b)
          /\ tcpSent' = Append(tcpSent, b)
    /\ UNCHANGED <<brokerVars, agentVars, side, lPc, buf, nRead, wPc, msg, tcpOut,
                   wsIn, wsOut, wsSent, wsCount, tcpLocal, tcpPeer, wsLocal,
                   wsPeer, rCtx>>

\* The channel's peer sends a message of k >= 0 bytes (bytes 101, 102, ...).
WsPeerSends ==
    /\ side # "off" /\ wsPeer = "open" /\ wsLocal = "open"
    /\ wsCount < MaxMessages
    /\ \E k \in 0..Min(BufSize + 1, MaxPayload - Len(wsSent)) :
          LET m == [i \in 1..k |-> 100 + Len(wsSent) + i] IN
          /\ wsIn' = Append(wsIn, m)
          /\ wsSent' = wsSent \o m
    /\ wsCount' = wsCount + 1
    /\ UNCHANGED <<brokerVars, agentVars, side, lPc, buf, nRead, wPc, msg, tcpIn,
                   tcpOut, tcpSent, wsOut, tcpLocal, tcpPeer, wsLocal, wsPeer,
                   rCtx>>

\* The local connection's peer closes it.
TcpPeerCloses ==
    /\ side # "off" /\ tcpPeer = "open"
    /\ tcpPeer' = "closed"
    /\ UNCHANGED <<brokerVars, agentVars, side, lPc, buf, nRead, wPc, msg, tcpIn,
                   tcpOut, tcpSent, wsIn, wsOut, wsSent, wsCount, tcpLocal,
                   wsLocal, wsPeer, rCtx>>

\* The channel's peer closes it, or the network under it fails.
WsPeerCloses ==
    /\ side # "off" /\ wsPeer = "open"
    /\ wsPeer' = "closed"
    /\ UNCHANGED <<brokerVars, agentVars, side, lPc, buf, nRead, wPc, msg, tcpIn,
                   tcpOut, tcpSent, wsIn, wsOut, wsSent, wsCount, tcpLocal,
                   tcpPeer, wsLocal, rCtx>>

\* The agent is interrupted: forwardTraffic's ctx is done.
RelayInterrupt ==
    /\ side = "agent" /\ ~rCtx
    /\ rCtx' = TRUE
    /\ UNCHANGED <<brokerVars, agentVars, side, lPc, buf, nRead, wPc, msg, tcpIn,
                   tcpOut, tcpSent, wsIn, wsOut, wsSent, wsCount, tcpLocal,
                   tcpPeer, wsLocal, wsPeer>>

RelayNext ==
    \/ handleTunnelRelay
    \/ forwardTrafficRelay
    \/ TcpPeerWrites
    \/ WsPeerSends
    \/ TcpPeerCloses
    \/ WsPeerCloses
    \/ RelayInterrupt

RelaySpec == RelayInit /\ [][RelayNext]_vars

\* Every goroutine that can take a step is run, and the read deadline
\* passes; the peers and the interrupt are free.
RelayLiveSpec ==
    /\ RelaySpec
    /\ WF_vars(handleTunnelRelay)
    /\ WF_vars(forwardTrafficRelay)

\* ================================================================== claims

IsPort(p) == \A i \in 1..Len(p) : p[i] \in 48..57

\* A /register request that passes decoding, the key check and the syntax check.
AdmittedRegister(t) ==
    /\ req[t].kind = "register"
    /\ ~req[t].malformed
    /\ req[t].key = Secret
    /\ isValidSubdomain(req[t].sub)

Lookups == {t \in Tasks : req[t].kind \in {"tunnel", "http"} /\ loc[t].looked}

LookupKey(t) == IF req[t].kind = "http" THEN loc[t].host ELSE req[t].sub

Registrants(s) ==
    {t \in Tasks : AdmittedRegister(t) /\ req[t].sub = s /\ pc[t] = "done"}

\* C2: of the /register requests with the correct credential that name the
\* same valid, initially unregistered subdomain s, exactly one is answered
\* 201 and every other one 409, and the registry maps s to the winner's
\* target.
C2_ExactlyOneWinner ==
    \A s \in {S_demo, S_myapp1} :
        Registrants(s) # {} =>
            \E w \in Registrants(s) :
                /\ resp[w] = StatusCreated
                /\ \A t \in Registrants(s) \ {w} : resp[t] = StatusConflict
                /\ s \in DOMAIN tunnels
                /\ tunnels[s] = [Host |-> S_localhostColon \o req[w].port,
                                 nil |-> FALSE]

\* The part of C2 that the code keeps: among the requests above, at most one
\* stores an entry, every other one is answered 409 and stores nothing, and
\* the entry is what the storing request parsed.
AtMostOneRegistrantStores ==
    \A s \in {S_demo, S_myapp1} :
        \A t, u \in Registrants(s) :
            /\ (loc[t].wrote /\ loc[u].wrote) => t = u
            /\ ~loc[t].wrote => resp[t] = StatusConflict
            /\ loc[t].wrote => tunnels[s] = urlParse(req[t].port)

\* C7: GET /tunnel answers 401 on a wrong key and 404 on an unregistered
\* subdomain, and upgrades only after the key check and the registry lookup
\* have both succeeded.
C7_ValidateBeforeUpgrade ==
    \A t \in Tasks : req[t].kind = "tunnel" =>
        /\ (pc[t] = "done" /\ req[t].key # Secret)
              => resp[t] = StatusUnauthorized
        /\ (pc[t] = "done" /\ loc[t].looked /\ ~loc[t].exists)
              => resp[t] = StatusNotFound
        /\ loc[t].upgraded
              => (req[t].key = Secret /\ loc[t].looked /\ loc[t].exists)

\* What C7 keeps: a wrong key is answered 401 without an upgrade, and a
\* handler that has returned leaves no upgraded connection open.
TunnelRejectsBadKey ==
    \A t \in Tasks : (req[t].kind = "tunnel" /\ pc[t] = "done") =>
        /\ req[t].key # Secret
              => (resp[t] = StatusUnauthorized /\ ~loc[t].upgraded)
        /\ ~loc[t].connOpen

\* C8: POST /register answers 400 for a malformed body, else 401 for a wrong
\* key, else 400 for an invalid subdomain, else 409 for a registered one,
\* else 201; a request not answered 201 has not changed the registry.
C8_RegisterStatuses ==
    \A t \in Tasks : (req[t].kind = "register" /\ pc[t] = "done") =>
        /\ resp[t] =
              IF req[t].malformed THEN StatusBadRequest
              ELSE IF req[t].key # Secret THEN StatusUnauthorized
              ELSE IF ~(/\ Len(req[t].sub) > 0
                        /\ \A i \in 1..Len(req[t].sub) :
                              req[t].sub[i] \in (97..122) \cup (48..57) \cup {45})
                   THEN StatusBadRequest
              ELSE IF loc[t].exists THEN StatusConflict
              ELSE StatusCreated
        /\ resp[t] # StatusCreated => ~loc[t].wrote

\* C9: handleHTTP's routing key is the part of Host before the first '.';
\* when the registry holds no entry for it the answer is 404, nothing is
\* dialed or forwarded, and the registry is not written.
C9_UnknownHost404 ==
    \A t \in Tasks : (req[t].kind = "http") =>
        LET h == req[t].host
            k == loc[t].host
        IN  /\ Len(k) <= Len(h)
            /\ \A i \in 1..Len(k) : k[i] = h[i] /\ k[i] # 46
            /\ Len(k) < Len(h) => h[Len(k) + 1] = 46
            /\ ~loc[t].wrote
            /\ (pc[t] = "done" /\ k \notin DOMAIN tunnels)
                  => (resp[t] = StatusNotFound /\ loc[t].looked)
            /\ (loc[t].looked /\ ~loc[t].exists)
                  => /\ pc[t] = "done"
                     /\ resp[t] = StatusNotFound
                     /\ ~loc[t].forwarded
                     /\ ~loc[t].dialed

\* C9's case: the request for unknown.example.com was routed by "unknown"
\* and answered 404.
C9_Witness ==
    \E t \in Tasks :
        /\ req[t].kind = "http"
        /\ req[t].host = S_unknown \o S_dotExampleCom
        /\ loc[t].host = S_unknown
        /\ pc[t] = "done"
        /\ resp[t] = StatusNotFound

\* ----------------------------------------------------------- agent claims

Connecting == aPc \in {"select", "dial_await", "backoff"}

Active == Running /\ aPc = "wait" /\ conn = "open" /\ listener = "open"

\* C3: when the agent is Active and the control channel closes or errors,
\* main eventually leaves Active and is Connecting again, with no interrupt
\* signal needed for it.
C3_ReconnectsAfterDrop ==
    [] ((Active /\ ChannelDropped /\ ~ctxDone) => <> (Connecting \/ ctxDone))

\* What the code keeps of C3: main leaves the wait of line 106 only once ctx
\* is done.
LeavesActiveOnlyOnInterrupt ==
    [][(aPc = "wait" /\ aPc' # "wait" /\ exit' = "running") => ctxDone]_vars

\* min(2 * 2^(k-1), 60)
ExpectedDelay(k) == IF 2 * 2^(k - 1) < 60 THEN 2 * 2^(k - 1) ELSE 60

\* C4: the wait before the retry that follows the k-th consecutive failed
\* dial is min(2 * 2^(k-1), 60) seconds; the delay is in [2, 60] throughout
\* the connect loop, and is 2 after a successful dial.
C4_BackoffSequence ==
    /\ aPc = "backoff" => (fails >= 1 /\ retryDelay = ExpectedDelay(fails))
    /\ aPc \in {"select", "dial_await"} => retryDelay = ExpectedDelay(fails + 1)
    /\ aPc \in {"select", "dial_await", "backoff", "wait"}
          => (retryDelay >= 2 /\ retryDelay <= 60)
    /\ aPc = "wait" => (retryDelay = 2 /\ fails = 0)

\* C4's case: the sixth failed dial in a row, the first whose doubled delay
\* (64) is cut to the ceiling.
C4_Witness == aPc = "backoff" /\ fails = 6 /\ retryDelay = 60

\* C10, as stated: only a failure to bind the local listener ends the agent
\* process; a registration answered 401 or 400, a transport failure, a failed
\* dial and a relay I/O error leave it running.
C10_OnlyListenFatal ==
    /\ exit \in {"fatal_register", "fatal_listen"} => lastErr = "listen"
    /\ lastErr \in {"unauthorized", "rejected", "transport", "dial", "relay"}
          => exit \in {"running", "shutdown"}

\* C10, amended: the process ends on a failure to bind the local listener and
\* on a registration answered with a status other than 201 and 409 (401, 400),
\* and on no other error: a transport failure, a conflict, a failed dial, a
\* failed accept and a relay I/O error leave it running.
C10_FatalErrors ==
    /\ exit = "fatal_listen" <=> lastErr = "listen"
    /\ exit = "fatal_register" <=> lastErr \in {"unauthorized", "rejected"}
    /\ exit = "fatal_register"
          => /\ pc[AgentTask] = "accept"
             /\ req[AgentTask].kind = "register"
             /\ resp[AgentTask] \in {StatusUnauthorized, StatusBadRequest}
    /\ lastErr \in {"none", "transport", "conflict", "dial", "accept", "relay"}
          => exit \in {"running", "shutdown"}

\* C10's case: the broker answered the registration 401 and the process
\* ended.
C10_Witness ==
    /\ exit = "fatal_register"
    /\ lastErr = "unauthorized"
    /\ resp[AgentTask] = StatusUnauthorized

\* ----------------------------------------------------------- relay claims

Paired == side # "off"

Torn ==
    /\ lPc = "done" /\ wPc = "done"
    /\ tcpLocal = "closed" /\ wsLocal = "closed"

\* C5: in a relay pairing, once either endpoint is closed or a read or write
\* on it has failed, eventually both forwarding loops have ended and both
\* connections of the pairing are closed.
C5_BothEndsClose ==
    [] ((Paired /\ (\/ tcpPeer = "closed" \/ wsPeer = "closed"
                    \/ tcpLocal = "closed" \/ wsLocal = "closed"
                    \/ lPc = "done" \/ wPc = "done"))
        => <> Torn)

\* What the code keeps of C5: when handleTunnel itself returns (its local
\* read or its channel write failed), the goroutine ends too and both
\* connections are closed.
TunnelReturnEndsRelay ==
    [] ((side = "broker" /\ lPc = "done") => <> Torn)

IsPrefix(a, b) == Len(a) <= Len(b) /\ \A i \in 1..Len(a) : a[i] = b[i]

\* C6: in each direction of a pairing the bytes delivered are, in every
\* state, a prefix of the bytes the sender's peer wrote, and all of them once
\* the loop has forwarded what it read and nothing is left to read; local
\* bytes travel in chunks of at most the buffer's length, and a payload
\* longer than the buffer in more than one.
C6_RelayInOrder ==
    Paired =>
        /\ IsPrefix(Flatten(wsOut), tcpSent)
        /\ IsPrefix(tcpOut, wsSent)
        /\ (tcpIn = <<>> /\ lPc \in {"read", "select"})
              => Flatten(wsOut) = tcpSent
        /\ (wsIn = <<>> /\ wPc \in {"read", "select"})
              => tcpOut = wsSent
        /\ \A i \in 1..Len(wsOut) : Len(wsOut[i]) \in 1..BufSize

\* C6's case: both peers wrote more than one buffer, an empty message went
\* through, and everything arrived, the local bytes in several chunks.
C6_Witness ==
    /\ Paired
    /\ Len(tcpSent) > BufSize /\ Flatten(wsOut) = tcpSent /\ Len(wsOut) >= 2
    /\ Len(wsSent) > BufSize /\ tcpOut = wsSent
    /\ wsCount = 2 /\ wsIn = <<>> /\ wPc # "write"

\* ------------------------------------------------ registration loop claims

InRegistration == aPc \in {"register", "reg_await", "reg_sleep"}

\* c is "<base>-<digits>": the base, one '-', and a decimal number.
IsCandidateOf(c, base) ==
    /\ Len(c) > Len(base) + 1
    /\ SubSeq(c, 1, Len(base)) = base
    /\ c[Len(base) + 1] = 45
    /\ \A i \in (Len(base) + 2)..Len(c) : c[i] >= 48 /\ c[i] <= 57

\* The /register request the agent sends for its current candidate.
AgentRegisterRequest ==
    [NoReq EXCEPT !.kind = "register", !.sub = subdomain,
                  !.port = flags.port, !.key = flags.apikey]

\* C11: each step of the registration loop is determined by the outcome of
\* the exchange: 201 ends the loop with the candidate kept; 409 draws
\* "<base>-<n>" from the base name of the command line and repeats the
\* exchange; a transport failure waits and sends the same candidate again;
\* 401 or 400 ends the process, after which no request is sent; every request
\* names the current candidate.
C11_RegistrationLoop ==
    [][ /\ (aPc = "reg_await" /\ aPc' # "reg_await") =>
              LET status == resp[AgentTask] IN
              /\ status = StatusCreated =>
                    (aPc' = "select" /\ subdomain' = subdomain /\ exit' = "running")
              /\ status = StatusConflict =>
                    /\ aPc' = "register" /\ exit' = "running"
                    /\ IsCandidateOf(subdomain', flags.subdomain)
              /\ status = Aborted =>
                    (aPc' = "reg_sleep" /\ subdomain' = subdomain /\ exit' = "running")
              /\ status \in {StatusUnauthorized, StatusBadRequest} =>
                    exit' # "running"
        /\ (aPc = "register" /\ aPc' # "register") =>
              \/ aPc' = "reg_sleep" /\ subdomain' = subdomain /\ req' = req
              \/ /\ aPc' = "reg_await" /\ subdomain' = subdomain
                 /\ req'[AgentTask] = AgentRegisterRequest
        /\ (aPc = "reg_sleep" /\ aPc' # "reg_sleep") =>
              (aPc' = "register" /\ subdomain' = subdomain)
        /\ exit # "running" => req' = req
      ]_vars

\* C11's case: the base name was taken, the agent was answered 409, drew
\* "<base>-<n>" and registered it with 201.
C11_Witness ==
    /\ aPc = "select" /\ lastErr = "conflict"
    /\ IsCandidateOf(subdomain, flags.subdomain)
    /\ <<subdomain, flags.port>> \in created
    /\ flags.subdomain \in DOMAIN tunnels

\* Line 64 draws the suffix n.
AgentDraws(n) ==
    AgentResponse /\ subdomain' = candidate(subdomain, flags.subdomain, n)

\* rand.Intn is fair: a suffix that could be drawn again and again is drawn.
AgentFairSpec ==
    /\ AgentLiveSpec
    /\ \A n \in Suffixes : SF_vars(AgentDraws(n))

\* The agent has left the registration loop with a 201 for its candidate.
Registered ==
    /\ ~InRegistration
    /\ exit # "fatal_register"
    /\ <<subdomain, flags.port>> \in created

\* The names the loop can ask for: the base and its candidates.
AgentNames ==
    {flags.subdomain} \cup
    {candidate(flags.subdomain, flags.subdomain, n) : n \in Suffixes}

\* C12: with a valid credential and base name and the broker reachable from
\* some point on, the registration loop eventually ends with a 201 (the
\* suffixes being drawn fairly), whatever the registry holds when the agent
\* starts, the base name included, as long as it leaves one of the agent's
\* names free.
C12_RegistrationTerminates ==
    (/\ flags.apikey = Secret
     /\ isValidSubdomain(flags.subdomain)
     /\ \E c \in AgentNames : c \notin DOMAIN tunnels
     /\ <>[][~AgentPostFails]_vars)
        => <>Registered

\* What the loop keeps of C12: it ends with a 201 when the port of the
\* command line is a decimal number.
RegistrationTerminatesForPorts ==
    (/\ flags.apikey = Secret
     /\ isValidSubdomain(flags.subdomain)
     /\ IsPort(flags.port)
     /\ \E c \in AgentNames : c \notin DOMAIN tunnels
     /\ <>[][~AgentPostFails]_vars)
        => <>Registered

\* ------------------------------------------------------ more broker claims

\* C13: the broker never opens a connection to a registered target itself:
\* neither the handshake nor the dispatch of a public request dials it.
C13_NoDirectDial ==
    \A t \in Tasks : ~loc[t].dialed

\* C16: every registry entry other than the default tunnel of line 36 was
\* created by a /register exchange answered 201, and every stored target is
\* a usable localhost:<port> endpoint.
C16_EntriesFromRegistration ==
    \A s \in DOMAIN tunnels :
        /\ ~tunnels[s].nil
        /\ s = S_test \/ \E p \in Ports : <<s, p>> \in created

\* What the code keeps of C16: an entry is stored only by a /register
\* request that passed the credential and format checks and found the name
\* free.
EntriesFromAdmittedRequests ==
    \A s \in DOMAIN tunnels :
        s = S_test \/ \E t \in Tasks :
            /\ req[t].kind = "register" /\ req[t].sub = s
            /\ req[t].key = Secret /\ isValidSubdomain(s)
            /\ loc[t].wrote
            /\ tunnels[s] = urlParse(req[t].port)

\* ------------------------------------------------------- more agent claims

Relaying == {i \in 1..MaxLocalConns : fwd[i] = "relaying"}

\* C14: a session has at most one local connection open and at most one
\* relay attached to its control channel.
C14_OneRelayPerSession ==
    Cardinality(Relaying) <= 1

\* C15: once a /register exchange of the agent was answered 201, no
\* /register request reaches the broker again.
C15_NoReRegistration ==
    [][created # {} =>
          ~(/\ pc[AgentTask] = "accept" /\ pc'[AgentTask] # "accept"
            /\ req'[AgentTask].kind = "register")]_vars

\* C15's case: registered, then dial failures and backoff waits.
C15_Witness ==
    /\ created # {}
    /\ aPc = "backoff" /\ fails >= 3
    /\ req[AgentTask].kind = "register" /\ pc[AgentTask] = "accept"

\* ----------------------------------------------- registry lifetime and lock

\* The name of t's /register request was registered when the request
\* arrived: it is the default tunnel or an earlier exchange for it was
\* answered 201.
RegisteredAtArrival(t) ==
    \/ req[t].sub = S_test
    \/ \E p \in Ports : <<req[t].sub, p>> \in snap[t]

\* C17: no step of the broker removes or rewrites a registry entry, whatever
\* happens to control channels; a /register for a registered name is never
\* answered 201, and is answered 409 once it passed the decoding and the
\* credential check.
C17_EntriesStay ==
    /\ [][\A s \in DOMAIN tunnels :
              s \in DOMAIN tunnels' /\ tunnels'[s] = tunnels[s]]_vars
    /\ [](\A t \in Tasks :
              (req[t].kind = "register" /\ pc[t] = "done" /\ RegisteredAtArrival(t))
                  => /\ resp[t] # StatusCreated
                     /\ ~loc[t].wrote
                     /\ AdmittedRegister(t) => resp[t] = StatusConflict)

\* C17's case: a control channel for the name was opened and has closed, the
\* entry is still there, and a /register for the name was answered 409.
C17_Witness ==
    \E t, u \in Tasks :
        /\ req[t].kind = "tunnel" /\ pc[t] = "done"
        /\ loc[t].upgraded /\ loc[t].exists /\ ~loc[t].connOpen
        /\ req[u].kind = "register" /\ req[u].sub = req[t].sub
        /\ pc[u] = "done" /\ resp[u] = StatusConflict
        /\ req[t].sub \in DOMAIN tunnels

\* The places of a handler where it reads or writes the registry map.
AtWrite(t) == pc[t] \in {"reg_check", "reg_insert"}
AtRead(t) == pc[t] \in {"tun_lookup", "http_lookup"}

\* C19: a handler is at a read of the registry exactly while it holds the
\* read lock, at the existence test or the write exactly while it holds the
\* write lock, a writer excludes every reader and other writer, the map
\* changes only under the write lock and a lookup completes only under a
\* lock; at every other place (waiting for the lock, the upgrade, the dial,
\* the relay, the proxy, the response, after the return) no lock is held.
C19_LockDiscipline ==
    /\ [](/\ tunnelsMu.w # 0 => tunnelsMu.r = {}
          /\ \A t \in Tasks :
                /\ AtWrite(t) <=> tunnelsMu.w = t
                /\ AtRead(t) <=> t \in tunnelsMu.r)
    /\ [][/\ tunnels' # tunnels =>
                \E t \in Tasks : tunnelsMu.w = t /\ pc[t] = "reg_insert"
          /\ \A t \in Tasks :
                (~loc[t].looked /\ loc'[t].looked) =>
                    (tunnelsMu.w = t \/ t \in tunnelsMu.r)]_vars

\* C19's case: a registration was answered 409 and has returned, and another
\* handler holds the write lock.
C19_Witness ==
    \E t, u \in Tasks :
        /\ req[t].kind = "register" /\ pc[t] = "done"
        /\ resp[t] = StatusConflict
        /\ t # u /\ tunnelsMu.w = u

\* ----------------------------------------------------- the dial's headers

\* C20: the headers of every dial carry the candidate that was answered 201
\* and the credential that registered it, and the handshake's lookup for
\* that name finds the entry.
C20_DialsRegisteredName ==
    /\ Cardinality(created) <= 1
    /\ aPc \in {"select", "dial_await", "backoff", "wait"} =>
          /\ headers.sub = subdomain
          /\ headers.key = flags.apikey
          /\ created = {<<headers.sub, flags.port>>}
          /\ headers.sub \in DOMAIN tunnels
    /\ req[AgentTask].kind = "tunnel" =>
          /\ req[AgentTask].sub = headers.sub
          /\ req[AgentTask].key = headers.key
          /\ created = {<<req[AgentTask].sub, flags.port>>}
          /\ resp[AgentTask] = StatusSwitchingProtocols
          /\ loc[AgentTask].looked => loc[AgentTask].exists

\* C20's case: the base name was taken, the agent registered "<base>-<n>",
\* dialed, and the handshake looked that name up.
C20_Witness ==
    /\ req[AgentTask].kind = "tunnel"
    /\ IsCandidateOf(req[AgentTask].sub, flags.subdomain)
    /\ loc[AgentTask].looked /\ loc[AgentTask].exists
    /\ flags.subdomain \in DOMAIN tunnels

\* ------------------------------------------------------------- the shutdown

\* A task of the session is still blocked: handleConnection in Accept (line
\* 128), or a forwardTraffic in a read or write of the channel or of its
\* local connection.
TasksBlocked ==
    \/ hPc = "accept"
    \/ Relaying # {}

\* C18: once the interrupt has arrived (the agent Connecting or Active), the
\* agent eventually is in Shutdown with the control channel closed and no
\* task of the session left blocked on the listener, the channel or a local
\* socket (a failure to bind the listener in the meantime ends the process
\* otherwise).
C18_ShutdownUnblocksAll ==
    [](ctxDone =>
          <>(\/ exit = "fatal_listen"
             \/ /\ exit = "shutdown"
                /\ conn # "open"
                /\ ~TasksBlocked))

\* What the code keeps of C18: after the interrupt the process ends, and when
\* it ends by main's return main has closed the control channel it opened.
InterruptEndsProcess ==
    [](ctxDone => <>(exit # "running" /\ (exit = "shutdown" => conn # "open")))

\* handleConnection leaves Accept only when Accept itself returns: no step
\* of main or of the cancellation takes it out of line 128.
AcceptNotUnblocked ==
    [][(hPc = "accept" /\ hPc' # "accept") => (hPc' = "select" /\ ctxDone' = ctxDone
          /\ (fwd' # fwd \/ lastErr' = "accept"))]_vars
====
